---- MODULE Spec2Model ----
(***************************************************************************)
(* A model of amitosis.py: class Populations, an ensemble of replicate     *)
(* populations of individuals with a diploid germline and a somatic genome *)
(* of configurable ploidy, evolving by mutation, selection and (a)mitotic  *)
(* reproduction.                                                           *)
(*                                                                         *)
(* Representation.                                                         *)
(*  - Arrays are functions over 0-based index sets, as in numpy:           *)
(*    soma[r][i][l], germ[r][i][l], fitness[r][i], selected[r][i].         *)
(*  - Real numbers are exact rationals <<num, den>> with den > 0.          *)
(*    Floating-point rounding is not modelled.  0/0 is the value NaN.      *)
(*  - fitness_std holds the SQUARE of the sample standard deviation (the   *)
(*    sample variance, ddof = 1); it is NaN for a single replicate.        *)
(*  - A random draw is a nondeterministic choice over the support of its   *)
(*    distribution.                                                        *)
(***************************************************************************)
EXTENDS Integers, Sequences, FiniteSets, TLC

\* ------------------------------------------------------------ bounds
\* the client calls get_next_generation while generation < MaxGen
MaxGen == 1
\* evolve is called with ngenerations <= MaxEvolve - generation
MaxEvolve == 2
\* direct calls of the stage methods (SpecStages)
MaxCalls == 2
\* binomial draws of one run that leave their default outcome
MaxHits == 2
\* np.random.random() returns multiples of 1 / UGrid
UGrid == 4

\* ploidy of the germline genome ("2 - self.germ")
GermPloidy == 2

VARIABLES
    nReps, N, nLoci, ploidy, genomic_mu, selcoef, amitosis,  \* parameters
    soma, germ,                  \* allele-count arrays
    fitness, relative_fitness,   \* caches written by get_fitness
    selected,                    \* parent indices written by select
    generation,                  \* self.generation
    fitness_mean, fitness_std,   \* the statistics log (dicts keyed by generation)
    pc, caller,                  \* the statement about to run, and who called it
    ngenerations, interval, todo, start,  \* evolve's arguments, its range iterator, generation at its call
    calls,                       \* number of method calls made by the client
    hits,                        \* number of binomial draws that left their default outcome
    somaB, germB, fitnessB, relative_fitnessB, selectedB,  \* a second ensemble (SpecPair only)
    shared                       \* the replicate on which the two ensembles get the same draws

params == <<nReps, N, nLoci, ploidy, genomic_mu, selcoef, amitosis>>
evolveVars == <<ngenerations, interval, todo, start>>
logVars == <<fitness_mean, fitness_std>>
pairVars == <<somaB, germB, fitnessB, relative_fitnessB, selectedB, shared>>
vars == <<nReps, N, nLoci, ploidy, genomic_mu, selcoef, amitosis, soma, germ,
          fitness, relative_fitness, selected, generation, fitness_mean,
          fitness_std, pc, caller, ngenerations, interval, todo, start, calls, hits,
          somaB, germB, fitnessB, relative_fitnessB, selectedB, shared>>

\* ------------------------------------------------------------ inputs
\* array shapes <<nReps, N, nLoci>>
Shapes == {<<1, 1, 1>>, <<2, 1, 1>>, <<1, 2, 1>>}

\* somatic ploidies
Ploidies == {1, 2, 3}

\* the interval argument of evolve
Intervals == {1, 2}

\* genome-wide mutation rates and selection coefficients, as rationals
GenomicMus == {<<0, 1>>, <<1, 1>>}
SelCoefs == {<<-1, 1>>, <<1, 1>>}

Reps == 0 .. nReps - 1
Inds == 0 .. N - 1
Loci == 0 .. nLoci - 1

\* 0/0
NaN == <<0, 0>>
\* an attribute not assigned yet
Unset == <<>>

\* ------------------------------------------------------------ arithmetic
\* f itself; @@ makes TLC tabulate the function once instead of
\* re-evaluating its body at every application
Tabulated(f) == f @@ <<>>

RECURSIVE SumTo(_, _)
SumTo(f, n) == IF n < 0 THEN 0 ELSE f[n] + SumTo(f, n - 1)

RECURSIVE ProdTo(_, _)
ProdTo(f, n) == IF n < 0 THEN 1 ELSE f[n] * ProdTo(f, n - 1)

Max2(a, b) == IF a >= b THEN a ELSE b
Min2(a, b) == IF a <= b THEN a ELSE b

\* x / y on rationals with IEEE's 0/0 = NaN (x, y never NaN; x >= 0 whenever y = 0)
Divide(x, y) ==
    IF y[1] = 0 THEN NaN
    ELSE IF y[1] > 0 THEN <<x[1] * y[2], x[2] * y[1]>>
    ELSE <<-(x[1] * y[2]), -(x[2] * y[1])>>

Add(x, y) ==
    IF x = NaN \/ y = NaN THEN NaN
    ELSE IF x[2] = y[2] THEN <<x[1] + y[1], x[2]>>
    ELSE <<x[1] * y[2] + y[1] * x[2], x[2] * y[2]>>

\* IEEE comparisons: false when an operand is NaN
Less(x, y) == x # NaN /\ y # NaN /\ x[1] * y[2] < y[1] * x[2]
AtOrAbove(x, y) == x # NaN /\ y # NaN /\ x[1] * y[2] >= y[1] * x[2]
SameValue(x, y) == x # NaN /\ y # NaN /\ x[1] * y[2] = y[1] * x[2]

\* ------------------------------------------------------------ __init__
\* self.mu = self.genomic_mu / (nLoci * ploidy)
mu == <<genomic_mu[1], genomic_mu[2] * nLoci * ploidy>>

ZeroArray == [r \in Reps |-> [i \in Inds |-> [l \in Loci |-> 0]]]

\* ------------------------------------------------------------ get_fitness
\* s = (self.soma / self.ploidy) * self.selcoef ; 1 + s
OnePlusS(count) == <<ploidy * selcoef[2] + count * selcoef[1], ploidy * selcoef[2]>>

\* self.fitness = np.prod(1 + s, axis=2): numerators and denominators multiply
Fitness(somaArr) ==
    Tabulated([r \in Reps |-> [i \in Inds |->
        <<ProdTo([l \in Loci |-> OnePlusS(somaArr[r][i][l])[1]], nLoci - 1),
          ProdTo([l \in Loci |-> OnePlusS(somaArr[r][i][l])[2]], nLoci - 1)>>]])

\* np.sum(self.fitness, axis=1): all fitness values share one denominator
FitnessSum(fit, r) == <<SumTo([i \in Inds |-> fit[r][i][1]], N - 1), fit[r][0][2]>>

\* self.relative_fitness = self.fitness / np.expand_dims(np.sum(...), axis=1)
RelativeFitness(fit) ==
    Tabulated([r \in Reps |-> [i \in Inds |-> Divide(fit[r][i], FitnessSum(fit, r))]])

\* ------------------------------------------------------------ mutate
\* A faulty variant of BinomialSupport: the rate is ignored.
BinomialSupportAnyRate(n, p) == 0 .. n

\* support of np.random.binomial(n, p)
BinomialSupport(n, p) ==
    IF n = 0 \/ p[1] = 0 THEN {0}
    ELSE IF p[1] = p[2] THEN {n}
    ELSE 0 .. n

\* the value a binomial draw takes when no mutation event is spent on it
BinomialDefault(n, p) == IF p[1] = p[2] /\ p[1] # 0 THEN n ELSE 0

Cells == Reps \X Inds \X Loci
Sites == {"soma", "germ"} \X Cells

\* A faulty variant of Wildtype: the binomial draw is over all copies of the
\* site rather than over the copies still wildtype.
WildtypeOfWholeGenome(somaArr, germArr, site) ==
    IF site[1] = "soma" THEN ploidy ELSE GermPloidy

\* number of wildtype copies at a site
Wildtype(somaArr, germArr, site) ==
    LET c == site[2]
    IN  IF site[1] = "soma" THEN ploidy - somaArr[c[1]][c[2]][c[3]]
        ELSE GermPloidy - germArr[c[1]][c[2]][c[3]]

\* the default outcome of the two binomial draws of one mutate call, site by site
DefaultDraw(somaArr, germArr) ==
    Tabulated([s \in Sites |-> BinomialDefault(Wildtype(somaArr, germArr, s), mu)])

\* The outcomes of the two binomial draws of one mutate call: functions from
\* sites to increments, with at most `budget` sites off the default outcome.
MutateDraws(somaArr, germArr, budget) ==
    LET dflt == DefaultDraw(somaArr, germArr)
        free == Tabulated([s \in Sites |->
                    BinomialSupport(Wildtype(somaArr, germArr, s), mu) \ {dflt[s]}])
        hitSets == {H \in SUBSET {s \in Sites : free[s] # {}} : Cardinality(H) <= budget}
        values(H) == {w \in [H -> 0 .. Max2(ploidy, GermPloidy)] : \A s \in H : w[s] \in free[s]}
    IN  UNION {{Tabulated([s \in Sites |-> IF s \in H THEN w[s] ELSE dflt[s]]) : w \in values(H)}
               : H \in hitSets}

\* the number of sites where a draw left the default outcome
Hits(somaArr, germArr, d) ==
    LET dflt == DefaultDraw(somaArr, germArr)
    IN  Cardinality({s \in Sites : d[s] # dflt[s]})

\* A faulty variant of MutateAdd: the draw is assigned instead of added.
MutateAssign(x, d) == d

\* x += draw
MutateAdd(x, d) == x + d

MutatedSoma(somaArr, d) ==
    [r \in Reps |-> [i \in Inds |-> [l \in Loci |->
        MutateAdd(somaArr[r][i][l], d[<<"soma", <<r, i, l>>>>])]]]

MutatedGerm(germArr, d) ==
    [r \in Reps |-> [i \in Inds |-> [l \in Loci |->
        MutateAdd(germArr[r][i][l], d[<<"germ", <<r, i, l>>>>])]]]

\* ------------------------------------------------------------ select
\* np.cumsum(self.relative_fitness, axis=1), one replicate's row
RECURSIVE CumSumAt(_, _)
CumSumAt(row, i) == IF i = 0 THEN row[0] ELSE Add(CumSumAt(row, i - 1), row[i])

CumSum(row) == Tabulated([i \in Inds |-> CumSumAt(row, i)])

\* numpy's sort order on floats: NaN is larger than every number
SortsBefore(a, key) == Less(a, key) \/ (key = NaN /\ a # NaN)

\* np.searchsorted(a, key), side='left': binary search for the insertion point
RECURSIVE BinarySearch(_, _, _, _)
BinarySearch(a, key, lo, hi) ==
    IF lo >= hi THEN lo
    ELSE LET mid == lo + ((hi - lo) \div 2)
         IN  IF SortsBefore(a[mid], key) THEN BinarySearch(a, key, mid + 1, hi)
             ELSE BinarySearch(a, key, lo, mid)

SearchSorted(a, key) == BinarySearch(a, key, 0, N)

\* np.random.random((nReps, N)): values k / UGrid in [0, 1)
Uniform == {<<k, UGrid>> : k \in 0 .. UGrid - 1}
RandomVals == [Reps -> [Inds -> Uniform]]

\* np.array(list(map(np.searchsorted, cumsum_fit, random_vals)))
Selected(relfit, random_vals) ==
    Tabulated([r \in Reps |->
        LET cumsum_fit == CumSum(relfit[r])
        IN  [i \in Inds |-> SearchSorted(cumsum_fit, random_vals[r][i])]])

\* the arrays select can produce, over all values of random_vals: the draws of
\* different individuals are independent, so each entry ranges over the
\* indices reachable in its replicate
SelectOutcomes(relfit) ==
    LET reach == Tabulated([r \in Reps |->
                     LET cumsum_fit == CumSum(relfit[r])
                     IN  {SearchSorted(cumsum_fit, u) : u \in Uniform}])
    IN  {sel \in [Reps -> [Inds -> 0 .. N]] :
            \A r \in Reps, i \in Inds : sel[r][i] \in reach[r]}

\* ------------------------------------------------------------ reproduce
\* A faulty variant of rReps: the replicate index is lost.
rRepsAllZero == [r \in Reps |-> [i \in Inds |-> 0]]

\* rReps = np.ones((nReps, N)) * np.expand_dims(np.arange(nReps), axis=1)
rReps == [r \in Reps |-> [i \in Inds |-> 1 * r]]

\* A faulty variant of Gather: the selected parents are ignored.
GatherInPlace(arr, sel) == [r \in Reps |-> [i \in Inds |-> arr[r][i]]]

\* arr[rReps, self.selected, ]: fancy-index gather
Gather(arr, sel) == [r \in Reps |-> [i \in Inds |-> arr[rReps[r][i]][sel[r][i]]]]

\* A faulty variant of HypergeometricSupport: drawing with replacement.
SupportWithReplacement(ngood, nbad, nsample) ==
    IF ngood = 0 THEN {0} ELSE IF nbad = 0 THEN {nsample} ELSE 0 .. nsample

\* support of np.random.hypergeometric(ngood, nbad, nsample)
HypergeometricSupport(ngood, nbad, nsample) ==
    Max2(0, nsample - nbad) .. Min2(nsample, ngood)

\* wildtype = (ploidy - soma[...]) * 2 ; mutant = soma[...] * 2
AmitosisSupport(count) ==
    HypergeometricSupport(count * 2, (ploidy - count) * 2, ploidy)

\* the arrays np.random.hypergeometric(mutant, wildtype, self.ploidy) can return
AmitosisDraws(somaArr, sel) ==
    LET parent == Tabulated(Gather(somaArr, sel))
    IN  {a \in [Reps -> [Inds -> [Loci -> 0 .. ploidy]]] :
            \A r \in Reps, i \in Inds, l \in Loci : a[r][i][l] \in AmitosisSupport(parent[r][i][l])}

\* an index array usable in arr[rReps, sel]; anything else raises
ValidIndex(sel) == sel # Unset /\ \A r \in Reps, i \in Inds : sel[r][i] \in Inds

\* ------------------------------------------------------------ collect_data
\* fitness = self.fitness.mean(axis=1)
ReplicateMean(fit, r) == <<FitnessSum(fit, r)[1], FitnessSum(fit, r)[2] * N>>

\* fitness.mean()
MeanOfMeans(fit) ==
    <<SumTo([r \in Reps |-> ReplicateMean(fit, r)[1]], nReps - 1),
      ReplicateMean(fit, 0)[2] * nReps>>

\* fitness.std(ddof=1), squared:  (n * sum(x^2) - sum(x)^2) / (n * (n - 1))
VarOfMeans(fit) ==
    LET xs == [r \in Reps |-> ReplicateMean(fit, r)[1]]
        d == ReplicateMean(fit, 0)[2]
        sq == SumTo([r \in Reps |-> xs[r] * xs[r]], nReps - 1)
        sm == SumTo(xs, nReps - 1)
    IN  Divide(<<nReps * sq - sm * sm, d * d>>, <<nReps * (nReps - 1), 1>>)

\* dict.update({key: value})
Update(dict, key, value) ==
    [k \in DOMAIN dict \cup {key} |-> IF k = key THEN value ELSE dict[k]]

\* ------------------------------------------------------------ state machine

\* the object after __init__
Constructed ==
    /\ \E s \in Shapes : nReps = s[1] /\ N = s[2] /\ nLoci = s[3]
    /\ ploidy \in Ploidies
    /\ genomic_mu \in GenomicMus
    /\ selcoef \in SelCoefs
    /\ amitosis \in BOOLEAN
    /\ soma = ZeroArray
    /\ germ = ZeroArray
    /\ generation = 0
    /\ fitness = Fitness(ZeroArray)
    /\ relative_fitness = RelativeFitness(Fitness(ZeroArray))
    /\ fitness_mean = Update(<<>>, 0, MeanOfMeans(Fitness(ZeroArray)))
    /\ fitness_std = Update(<<>>, 0, VarOfMeans(Fitness(ZeroArray)))
    /\ selected = Unset
    /\ pc = "idle"
    /\ caller = "none"
    /\ ngenerations = 0 /\ interval = 0 /\ todo = 0 /\ start = 0
    /\ calls = 0
    /\ hits = 0

Init ==
    /\ Constructed
    /\ somaB = Unset /\ germB = Unset /\ fitnessB = Unset
    /\ relative_fitnessB = Unset /\ selectedB = Unset
    /\ shared = 0

\* the client calls one of the stage methods directly
Call(method) ==
    /\ pc = "idle"
    /\ calls < MaxCalls
    /\ calls' = calls + 1
    /\ pc' = method
    /\ caller' = "user"
    /\ UNCHANGED <<params, soma, germ, fitness, relative_fitness, selected,
                   generation, logVars, evolveVars, hits, pairVars>>

CallMutate == Call("mutate")
CallSelect == Call("select")
CallReproduce == Call("reproduce")

CallCollectData ==
    /\ pc = "idle"
    /\ pc' = "collect_data"
    /\ caller' = "user"
    /\ UNCHANGED <<params, soma, germ, fitness, relative_fitness, selected,
                   generation, logVars, evolveVars, calls, hits, pairVars>>

\* entry into get_next_generation
EnterGetNextGeneration ==
    /\ pc = "idle"
    /\ generation < MaxGen
    /\ pc' = "mutate"
    /\ caller' = "get_next_generation"
    /\ UNCHANGED <<params, soma, germ, fitness, relative_fitness, selected,
                   generation, logVars, evolveVars, hits, pairVars>>

CallGetNextGeneration == EnterGetNextGeneration /\ UNCHANGED calls

\* the same call, counted among the direct calls of stage methods
CallGetNextGenerationCounted ==
    EnterGetNextGeneration /\ calls < MaxCalls /\ calls' = calls + 1

CallEvolve ==
    /\ pc = "idle"
    /\ \E K \in 0 .. MaxEvolve - generation, every \in Intervals :
          /\ ngenerations' = K
          /\ interval' = every
          /\ todo' = K
    /\ start' = generation
    /\ UNCHANGED calls
    /\ pc' = "for"
    /\ caller' = "evolve"
    /\ UNCHANGED <<params, soma, germ, fitness, relative_fitness, selected,
                   generation, logVars, hits, pairVars>>

\* back at the client: the callee's frame is gone
ToIdle ==
    /\ pc' = "idle"
    /\ caller' = "none"
    /\ ngenerations' = 0 /\ interval' = 0 /\ todo' = 0 /\ start' = 0

\* after a statement of get_next_generation, or the return of a method the client called
Goto(next) ==
    IF caller = "user" THEN ToIdle
    ELSE pc' = next /\ UNCHANGED <<caller, evolveVars>>

Mutate ==
    /\ pc = "mutate"
    /\ \E d \in MutateDraws(soma, germ, MaxHits - hits) :
          /\ soma' = MutatedSoma(soma, d)
          /\ germ' = MutatedGerm(germ, d)
          /\ hits' = hits + Hits(soma, germ, d)
    /\ Goto("select")
    /\ UNCHANGED <<params, fitness, relative_fitness, selected, generation,
                   logVars, calls, pairVars>>

Select ==
    /\ pc = "select"
    /\ fitness' = Fitness(soma)
    /\ relative_fitness' = RelativeFitness(Fitness(soma))
    /\ selected' \in SelectOutcomes(RelativeFitness(Fitness(soma)))
    /\ Goto("reproduce")
    /\ UNCHANGED <<params, soma, germ, generation, logVars, calls, hits, pairVars>>

Reproduce ==
    /\ pc = "reproduce"
    /\ IF ValidIndex(selected)
       THEN /\ germ' = Gather(germ, selected)
            /\ IF amitosis
               THEN soma' \in AmitosisDraws(soma, selected)
               ELSE soma' = Gather(soma, selected)
            /\ Goto("increment")
       ELSE UNCHANGED <<soma, germ>> /\ ToIdle   \* AttributeError / IndexError propagates
    /\ UNCHANGED <<params, fitness, relative_fitness, selected, generation,
                   logVars, calls, hits, pairVars>>

Increment ==
    /\ pc = "increment"
    /\ generation' = generation + 1
    /\ IF caller = "evolve"
       THEN pc' = "if" /\ UNCHANGED <<caller, evolveVars>>
       ELSE ToIdle
    /\ UNCHANGED <<params, soma, germ, fitness, relative_fitness, selected,
                   logVars, calls, hits, pairVars>>

\* for generation in range(ngenerations)
EvolveFor ==
    /\ pc = "for"
    /\ IF todo > 0
       THEN /\ todo' = todo - 1
            /\ pc' = "mutate"
            /\ UNCHANGED <<caller, ngenerations, interval, start>>
       ELSE ToIdle
    /\ UNCHANGED <<params, soma, germ, fitness, relative_fitness, selected,
                   generation, logVars, calls, hits, pairVars>>

\* A faulty variant of RecordDue: the generation before is tested.
RecordDueLate(g, every) == (g - 1) % every = 0

\* (self.generation % interval) == 0
RecordDue(g, every) == g % every = 0

\* if (self.generation % interval) == 0
EvolveIf ==
    /\ pc = "if"
    /\ pc' = IF RecordDue(generation, interval) THEN "collect_data" ELSE "for"
    /\ UNCHANGED <<params, soma, germ, fitness, relative_fitness, selected,
                   generation, logVars, caller, evolveVars, calls, hits, pairVars>>

CollectData ==
    /\ pc = "collect_data"
    /\ fitness_mean' = Update(fitness_mean, generation, MeanOfMeans(fitness))
    /\ fitness_std' = Update(fitness_std, generation, VarOfMeans(fitness))
    /\ Goto("for")
    /\ UNCHANGED <<params, soma, germ, fitness, relative_fitness, selected,
                   generation, calls, hits, pairVars>>

\* the statements of the methods
Step ==
    \/ Mutate
    \/ Select
    \/ Reproduce
    \/ Increment
    \/ EvolveFor
    \/ EvolveIf
    \/ CollectData

\* the object driven through get_next_generation, evolve and collect_data
Next ==
    \/ CallGetNextGeneration
    \/ CallEvolve
    \/ CallCollectData
    \/ Step

Spec == Init /\ [][Next]_vars

\* the same, for objects built with genomic_mu = 0
InitNoMutation == Init /\ genomic_mu[1] = 0

SpecNoMutation == InitNoMutation /\ [][Next]_vars

\* the object driven through its stage methods, in any order
CallStage ==
    \/ CallMutate
    \/ CallSelect
    \/ CallReproduce
    \/ CallGetNextGenerationCounted

NextStages ==
    \/ CallStage
    \/ Mutate
    \/ Select
    \/ Reproduce
    \/ Increment

SpecStages == Init /\ [][NextStages]_vars

\* ------------------------------------------------------------ two ensembles
\* A second object B, built with the same parameters, runs the same generations
\* as the first object A.  On replicate `shared` every random draw of B is the
\* draw of A.  On the other replicates B's draws are arbitrary, and A's are
\* fixed: no mutation event, uniform draws of 0, offspring counts equal to the
\* parent's.  (Two arbitrary ensembles that both agree with A on `shared` agree
\* with each other there.)
InitPair ==
    /\ Constructed
    /\ nReps >= 2
    /\ shared \in Reps
    /\ somaB = ZeroArray
    /\ germB = ZeroArray
    /\ fitnessB = Fitness(ZeroArray)
    /\ relative_fitnessB = RelativeFitness(Fitness(ZeroArray))
    /\ selectedB = Unset

SharedSites == {s \in Sites : s[2][1] = shared}

PairMutate ==
    /\ pc = "mutate"
    /\ LET draws == MutateDraws(soma, germ, MaxHits - hits)
           dflt == DefaultDraw(soma, germ)
       IN  \E e \in MutateDraws(somaB, germB, MaxHits - hits) :
             LET d == Tabulated([s \in Sites |-> IF s \in SharedSites THEN e[s] ELSE dflt[s]])
             IN  /\ d \in draws
                 /\ soma' = MutatedSoma(soma, d)
                 /\ germ' = MutatedGerm(germ, d)
                 /\ somaB' = MutatedSoma(somaB, e)
                 /\ germB' = MutatedGerm(germB, e)
                 /\ hits' = hits + Hits(somaB, germB, e)
    /\ Goto("select")
    /\ UNCHANGED <<params, fitness, relative_fitness, selected, generation,
                   logVars, calls, fitnessB, relative_fitnessB, selectedB, shared>>

PairSelect ==
    /\ pc = "select"
    /\ fitness' = Fitness(soma)
    /\ relative_fitness' = RelativeFitness(Fitness(soma))
    /\ fitnessB' = Fitness(somaB)
    /\ relative_fitnessB' = RelativeFitness(Fitness(somaB))
    /\ LET relfit == RelativeFitness(Fitness(soma))
           relfitB == RelativeFitness(Fitness(somaB))
       IN  \E random_valsB \in RandomVals :
             LET random_vals == [r \in Reps |-> IF r = shared THEN random_valsB[r]
                                                 ELSE [i \in Inds |-> <<0, UGrid>>]]
             IN  /\ selected' = Selected(relfit, random_vals)
                 /\ selectedB' = Selected(relfitB, random_valsB)
    /\ Goto("reproduce")
    /\ UNCHANGED <<params, soma, germ, generation, logVars, calls, hits, somaB, germB, shared>>

PairReproduce ==
    /\ pc = "reproduce"
    /\ germ' = Gather(germ, selected)
    /\ germB' = Gather(germB, selectedB)
    /\ IF amitosis
       THEN LET draws == AmitosisDraws(soma, selected)
                parent == Gather(soma, selected)
            IN  \E b \in AmitosisDraws(somaB, selectedB) :
                  LET a == Tabulated([r \in Reps |-> IF r = shared THEN b[r] ELSE parent[r]])
                  IN  a \in draws /\ soma' = a /\ somaB' = b
       ELSE /\ soma' = Gather(soma, selected)
            /\ somaB' = Gather(somaB, selectedB)
    /\ Goto("increment")
    /\ UNCHANGED <<params, fitness, relative_fitness, selected, generation,
                   logVars, calls, hits, fitnessB, relative_fitnessB, selectedB, shared>>

NextPair ==
    \/ CallGetNextGeneration
    \/ PairMutate
    \/ PairSelect
    \/ PairReproduce
    \/ Increment

SpecPair == InitPair /\ [][NextPair]_vars

\* evolve alone, every statement of a running call eventually executed
NextEvolve ==
    \/ CallEvolve
    \/ Step

\* one population of one individual
InitEvolve == Init /\ nReps = 1 /\ N = 1

SpecEvolve == InitEvolve /\ [][NextEvolve]_vars /\ WF_vars(Step)

\* ------------------------------------------------------------ properties

\* C1: in every state reached from construction by mutate, select, reproduce
\* and get_next_generation calls in any order, in both modes and for every
\* outcome of the draws, every soma entry lies in 0 .. ploidy and every germ
\* entry in 0 .. 2.
AlleleCountsInRange ==
    \A r \in Reps, i \in Inds, l \in Loci :
        /\ soma[r][i][l] \in 0 .. ploidy
        /\ germ[r][i][l] \in 0 .. 2

\* a polyploid amitotic population holding a fully mutant soma entry after a
\* generation (mutation, selection and reproduction have all acted)
FixedAfterGeneration ==
    /\ pc = "idle" /\ generation >= 1 /\ amitosis /\ ploidy = 3
    /\ \E r \in Reps, i \in Inds, l \in Loci : soma[r][i][l] = ploidy

\* C10: mutate never lowers a soma or germ entry and raises it by at most the
\* wildtype copies left; reproduce gives every offspring a germ count no lower
\* than its selected parent's, and in mitotic mode a soma count no lower than
\* the parent's; no other statement writes the arrays.  Hence counts never
\* decrease along a lineage.
MutationOneDirectional ==
    [][/\ pc = "mutate" =>
            \A r \in Reps, i \in Inds, l \in Loci :
                /\ soma'[r][i][l] >= soma[r][i][l]
                /\ soma'[r][i][l] - soma[r][i][l] <= ploidy - soma[r][i][l]
                /\ germ'[r][i][l] >= germ[r][i][l]
                /\ germ'[r][i][l] - germ[r][i][l] <= 2 - germ[r][i][l]
       /\ (pc = "reproduce" /\ ValidIndex(selected)) =>
            \A r \in Reps, i \in Inds, l \in Loci :
                /\ germ'[r][i][l] >= germ[r][selected[r][i]][l]
                /\ ~amitosis => soma'[r][i][l] >= soma[r][selected[r][i]][l]
       /\ pc \notin {"mutate", "reproduce"} => UNCHANGED <<soma, germ>>
      ]_vars

\* a population that spent both mutation events, holds a soma entry of 2 or
\* more and has reproduced mitotically
RaisedTwice ==
    /\ pc = "idle" /\ generation >= 1 /\ ~amitosis /\ hits = 2
    /\ \E r \in Reps, i \in Inds, l \in Loci : soma[r][i][l] >= 2

\* C8: reproduce gathers by the selected parent of the same replicate: the new
\* germ[r][i][l] is the old germ[r][selected[r][i]][l] in both modes, the new
\* soma[r][i][l] is the old soma[r][selected[r][i]][l] in mitotic mode, and in
\* amitotic mode it is an outcome of the draw parameterised by the old soma of
\* that same parent.
ReproduceIsGather ==
    [][(pc = "reproduce" /\ ValidIndex(selected)) =>
          \A r \in Reps, i \in Inds, l \in Loci :
              LET p == selected[r][i]
              IN  /\ germ'[r][i][l] = germ[r][p][l]
                  /\ ~amitosis => soma'[r][i][l] = soma[r][p][l]
                  /\ amitosis =>
                        /\ soma'[r][i][l] >= 2 * soma[r][p][l] - ploidy
                        /\ soma'[r][i][l] <= 2 * soma[r][p][l]
                        /\ soma'[r][i][l] \in 0 .. ploidy
      ]_vars

\* reproduce is about to copy a parent onto an individual that differs from it
\* in soma and in germline
ParentDiffers ==
    /\ pc = "reproduce" /\ ValidIndex(selected)
    /\ \E r \in Reps, i \in Inds :
          /\ selected[r][i] # i
          /\ soma[r][i] # soma[r][selected[r][i]]
          /\ germ[r][i] # germ[r][selected[r][i]]

\* C9: in amitotic mode an offspring of a parent with somatic count s gets a
\* count k with max(0, 2s - ploidy) <= k <= min(ploidy, 2s); every k of that
\* range can be drawn; s = 0 gives k = 0 and s = ploidy gives k = ploidy.
AmitoticSegregation ==
    /\ []((pc = "reproduce" /\ amitosis /\ ValidIndex(selected)) =>
            \A r \in Reps, i \in Inds, l \in Loci :
                LET s == soma[r][selected[r][i]][l]
                IN  \A j \in Max2(0, 2 * s - ploidy) .. Min2(ploidy, 2 * s) :
                        ENABLED (Reproduce /\ soma'[r][i][l] = j))
    /\ [][(pc = "reproduce" /\ amitosis /\ ValidIndex(selected)) =>
            \A r \in Reps, i \in Inds, l \in Loci :
                LET s == soma[r][selected[r][i]][l]
                    k == soma'[r][i][l]
                IN  /\ Max2(0, 2 * s - ploidy) <= k
                    /\ k <= Min2(ploidy, 2 * s)
                    /\ s = 0 => k = 0
                    /\ s = ploidy => k = ploidy
          ]_vars

\* amitotic reproduction from a parent holding 1 mutant copy of 3: the range
\* of the offspring count, 0 .. 2, is cut by the number of mutant copies
SegregationCut ==
    /\ pc = "reproduce" /\ amitosis /\ ploidy = 3 /\ ValidIndex(selected)
    /\ \E r \in Reps, i \in Inds, l \in Loci : soma[r][selected[r][i]][l] = 1

\* C5: with genomic_mu = 0 every soma and germ entry stays 0, and every
\* recorded generation has fitness_mean = 1 and, for nReps >= 2,
\* fitness_std = 0.
StaysWildtype ==
    genomic_mu[1] = 0 =>
        /\ \A r \in Reps, i \in Inds, l \in Loci : soma[r][i][l] = 0 /\ germ[r][i][l] = 0
        /\ \A g \in DOMAIN fitness_mean :
              /\ SameValue(fitness_mean[g], <<1, 1>>)
              /\ nReps >= 2 => SameValue(fitness_std[g], <<0, 1>>)

\* two generations without mutation, the second one recorded, in an amitotic
\* ensemble of two replicates
RecordedWithoutMutation ==
    /\ genomic_mu[1] = 0 /\ amitosis /\ nReps >= 2 /\ pc = "idle"
    /\ generation = 2 /\ 2 \in DOMAIN fitness_mean

SelectFirstAtOrAbove ==
    [][pc = "select" =>
          \A r \in Reps :
              LET cumsum_fit == CumSum(relative_fitness'[r])
              IN  /\ DOMAIN selected'[r] = 0 .. N - 1
                  /\ \A i \in Inds :
                        /\ selected'[r][i] \in 0 .. N - 1
                        /\ \E u \in Uniform :
                              /\ AtOrAbove(cumsum_fit[selected'[r][i]], u)
                              /\ \A j \in 0 .. selected'[r][i] - 1 :
                                    ~AtOrAbove(cumsum_fit[j], u)
      ]_vars

\* C4: when a replicate's total fitness is zero, so that its relative fitness
\* is 0/0, the run stops there: select returns no parents, and no
\* reproduction, generation increment or record follows.
InvalidFitnessStops ==
    [][/\ (pc = "select" /\ \E r \in Reps : FitnessSum(Fitness(soma), r)[1] = 0) =>
            (selected' = selected /\ pc' = "idle")
       /\ (pc \in {"reproduce", "increment", "collect_data"}
            /\ \E r \in Reps, i \in Inds : relative_fitness[r][i] = NaN) =>
            UNCHANGED <<soma, germ, generation, fitness_mean, fitness_std>>
      ]_vars

\* C2: the mean that collect_data records under the current generation is
\* the mean over replicates of the per-replicate mean fitness of the soma
\* array as it stands when the record is made.
RecordsCurrentFitness ==
    [][pc = "collect_data" =>
          SameValue(fitness_mean'[generation], MeanOfMeans(Fitness(soma)))
      ]_vars

\* during a call of evolve: the generations run so far, and the log keys of
\* the generations reached so far (the one just reached is recorded next)
EvolveCounted ==
    caller = "evolve" =>
        /\ generation = start + (ngenerations - todo)
                          - (IF pc \in {"mutate", "select", "reproduce", "increment"}
                             THEN 1 ELSE 0)
        /\ todo \in 0 .. ngenerations
        /\ \A g \in start + 1 .. generation :
              (g = generation /\ pc \in {"if", "collect_data"})
              \/ (g \in DOMAIN fitness_mean <=> g % interval = 0)

\* generation 0 is in the log, and the two dicts have the same keys
EvolveLogged == 0 \in DOMAIN fitness_mean /\ DOMAIN fitness_std = DOMAIN fitness_mean

\* C3: a call evolve(K, interval) returns, after exactly K cycles of mutate,
\* select, reproduce, generation += 1 in that order; generation ends K above
\* its value at the call; key 0 is in the log, every generation g reached
\* during the call is a key of the log if and only if g is a multiple of
\* interval, and no key is ever removed.
EvolveRunsKCycles ==
    /\ EvolveCounted /\ EvolveLogged
    /\ [][/\ EvolveCounted' /\ EvolveLogged'
          /\ pc = "mutate" => pc' = "select"
          /\ pc = "select" => pc' = "reproduce"
          /\ pc = "reproduce" => pc' = "increment"
          /\ pc = "increment" => (pc' = "if" /\ generation' = generation + 1)
          /\ pc # "increment" => generation' = generation
          /\ (pc = "for" /\ pc' = "idle") => generation = start + ngenerations
          /\ DOMAIN fitness_mean \subseteq DOMAIN fitness_mean'
         ]_vars
    /\ (pc # "idle") ~> (pc = "idle")

\* evolve(2, 2) from generation 0 is about to return: generation 2 has been
\* recorded and generation 1 has not
EvolveTwoByTwo ==
    /\ pc = "for" /\ todo = 0 /\ start = 0 /\ ngenerations = 2 /\ interval = 2
    /\ generation = 2 /\ DOMAIN fitness_mean = {0, 2}

====
